---------------------------- MODULE Spec2Model ----------------------------
(***************************************************************************)
(* A model of build-cairo.py: the command line of __main__, the two build  *)
(* functions build_pkgconf and build_cairo, and the helpers they call      *)
(* (setup_vs, download_and_extract, check_sha256, apply_patch,             *)
(* get_meson_executable, run_meson/run_command).                           *)
(*                                                                         *)
(* Text is modelled as a sequence of tokens: a file name such as           *)
(* pkgconf-1.8.0.tar.gz is <<"pkgconf","-","1",".","8",".","0",".","tar",  *)
(* ".","gz">>, so that str.split, str.join, glob and re.match work on the  *)
(* separators exactly as the code's calls do.                              *)
(***************************************************************************)
EXTENDS Integers, Sequences, FiniteSets, TLC

VARIABLES
    pc,        \* the statement the program is at
    rest,      \* the statements that follow it, in order
    argv,      \* the command line as typed
    op,        \* the argparse namespace (op = parser.parse_args())
    target,    \* the build function that is running
    loc,       \* its parameters and locals
    fs,        \* the build directories: what each holds
    libdir,    \* <prefix>/lib: file name -> content
    ENVIRON,   \* the module-level environment mapping of the subprocesses
    calls,     \* the external effects so far (subprocesses, downloads, ...)
    vs,        \* setup_vs: the environment it saw and what it did
    mes,       \* get_meson_executable: what it saw and what it did
    dl,        \* download_and_extract: arguments, locals and what it did
    sha        \* check_sha256: arguments and outcome

vars == <<pc, rest, argv, op, target, loc, fs, libdir, ENVIRON, calls, vs, mes, dl, sha>>

None == "None"

-----------------------------------------------------------------------------
(* Bounds of the model. *)

\* The longest file content (in bytes) that check_sha256 is given.
MaxFileLen == 2

\* How many library files <prefix>/lib holds at most before the post-processing.
MaxLibs == 2

-----------------------------------------------------------------------------
(* Text helpers: str.split, str.join, str.lower. *)

RECURSIVE SplitFrom(_, _, _)
\* s.split(sep) continued: cur is the piece being read.
SplitFrom(s, sep, cur) ==
    IF s = <<>> THEN <<cur>>
    ELSE IF Head(s) = sep THEN <<cur>> \o SplitFrom(Tail(s), sep, <<>>)
    ELSE SplitFrom(Tail(s), sep, Append(cur, Head(s)))

\* str.split(sep): the pieces between the separators (always at least one).
Split(s, sep) == SplitFrom(s, sep, <<>>)

RECURSIVE Join(_, _)
\* sep.join(parts)
Join(parts, sep) ==
    IF parts = <<>> THEN <<>>
    ELSE IF Len(parts) = 1 THEN parts[1]
    ELSE parts[1] \o <<sep>> \o Join(Tail(parts), sep)

\* parts[:-n]
DropLast(parts, n) ==
    IF Len(parts) <= n THEN <<>> ELSE SubSeq(parts, 1, Len(parts) - n)

\* How many times token c occurs in s.
RECURSIVE Count(_, _)
Count(s, c) ==
    IF s = <<>> THEN 0 ELSE (IF Head(s) = c THEN 1 ELSE 0) + Count(Tail(s), c)

LowerChar(c) ==
    CASE c = "A" -> "a" [] c = "B" -> "b" [] c = "C" -> "c"
      [] c = "D" -> "d" [] c = "E" -> "e" [] c = "F" -> "f"
      [] OTHER -> c

\* str.lower() of a string of hex digits
Lower(s) == [i \in 1..Len(s) |-> LowerChar(s[i])]

-----------------------------------------------------------------------------
(* check_sha256 *)

\* The chunk size of get_sha256_from_file.
BUF_SIZE == 65536

\* The digest is cut to one byte in the model (SHA-256 has 32): two hex digits.
DigestMod == 16 * 16

HexDigits == <<"0","1","2","3","4","5","6","7","8","9","a","b","c","d","e","f">>

RECURSIVE Sha256Update(_, _)
\* sha256.update(data): one byte after the other into the running state.
Sha256Update(h, data) ==
    IF data = <<>> THEN h
    ELSE Sha256Update((h * 33 + Head(data)) % DigestMod, Tail(data))

\* sha256.hexdigest(): lowercase hex, two digits per byte of the digest.
HexDigest(h) == <<HexDigits[(h \div 16) + 1], HexDigits[(h % 16) + 1]>>

RECURSIVE ReadLoop(_, _, _)
\* The while loop of get_sha256_from_file: read BUF_SIZE bytes, stop at an
\* empty read, update with every chunk.
ReadLoop(file, pos, h) ==
    LET data == SubSeq(file, pos + 1,
                       IF pos + BUF_SIZE < Len(file) THEN pos + BUF_SIZE ELSE Len(file))
    IN  IF data = <<>> THEN h
        ELSE ReadLoop(file, pos + Len(data), Sha256Update(h, data))

get_sha256_from_file(file) == HexDigest(ReadLoop(file, 0, 0))

\* A comparison that ignores the case of the hex digits.
HashMismatchIgnoringCase(file_sha, hash) == Lower(file_sha) # Lower(hash)

\* The test of check_sha256: the two strings differ.
HashMismatch(file_sha, hash) == file_sha # hash

\* check_sha256(filepath, hash): TRUE when it raises.
check_sha256_raises(file, hash) == HashMismatch(get_sha256_from_file(file), hash)

-----------------------------------------------------------------------------
(* Names, archives and the build directory. *)

DEFAULT_CAIRO_VERSION == <<"1", ".", "17", ".", "6">>

DEFAULT_PKGCONF_VERSION == <<"1", ".", "8", ".", "0">>

\* The model's digests are the first byte of the real ones.
SHA256SUM_CAIRO == <<"4", "9">>

SHA256SUM_PKGCONF == <<"d", "7">>

\* urllib.parse.urlsplit(DOWNLOAD_URL_CAIRO.format(...)).path
DOWNLOAD_URL_CAIRO(v) ==
    <<"/", "cairo", "/", "cairo", "/", "-", "/", "archive", "/">> \o v
        \o <<"/">> \o v \o <<".", "tar", ".", "gz">>

\* urllib.parse.urlsplit(DOWNLOAD_URL_PKGCONF.format(...)).path
DOWNLOAD_URL_PKGCONF(v) ==
    <<"/", "pkgconf", "/", "pkgconf", "-">> \o v \o <<".", "tar", ".", "gz">>

Targets == {"pkgconf", "cairo"}

UrlOf(t, v) == IF t = "cairo" THEN DOWNLOAD_URL_CAIRO(v) ELSE DOWNLOAD_URL_PKGCONF(v)

DefaultVersion(t) ==
    IF t = "cairo" THEN DEFAULT_CAIRO_VERSION ELSE DEFAULT_PKGCONF_VERSION

DefaultSha(t) == IF t = "cairo" THEN SHA256SUM_CAIRO ELSE SHA256SUM_PKGCONF

\* url.path.split("/")[-1]
ArchiveName(urlpath) ==
    LET parts == Split(urlpath, "/") IN parts[Len(parts)]

\* ".".join(tararchive.name.split(".")[:-2])
ExtractName(name) == Join(DropLast(Split(name, "."), 2), ".")

\* Path.glob("*-*-*"): the names with two "-" in them.
GlobMatches(name) == Count(name, "-") >= 2

\* A file of the build directory; tar describes it when it is a tarball:
\* whether tarfile can open it, and its top-level folder.
File(bytes, valid, top, origin) ==
    [kind |-> "file", bytes |-> bytes, valid |-> valid, top |-> top,
     origin |-> origin, patched |-> FALSE, subprojects |-> FALSE,
     built |-> FALSE, tools |-> {}]

\* A directory of the build directory; origin says whose tree it holds.
Dir(origin, patched, subprojects, built, tools) ==
    [kind |-> "dir", bytes |-> <<>>, valid |-> FALSE, top |-> <<>>,
     origin |-> origin, patched |-> patched, subprojects |-> subprojects,
     built |-> built, tools |-> tools]

\* A build directory that does not exist.
NoDir == [exists |-> FALSE, entries |-> <<>>]

\* A function with one more (or one replaced) entry.
Put(f, k, v) == [x \in (DOMAIN f) \cup {k} |-> IF x = k THEN v ELSE f[x]]

\* A function without the entry k.
Del(f, k) == [x \in (DOMAIN f) \ {k} |-> f[x]]

\* The bytes of the archive the constants SHA256SUM_* were taken from.
GenuineBytes(t) == IF t = "cairo" THEN <<73>> ELSE <<215>>

\* The folder the released tarball unpacks to: pkgconf-<v> for pkgconf,
\* cairo-<v>-<commit> for the gitlab archive of cairo.
ReleasedTop(t, v) ==
    IF t = "cairo" THEN <<"cairo", "-">> \o v \o <<"-", "commit">>
    ELSE <<"pkgconf", "-">> \o v

\* What a tarball published for t may be: the released one, one repacked under
\* the plain name, one repacked under a name without "-", and one with
\* different bytes.
Tarballs(t, v) ==
    { File(GenuineBytes(t), TRUE, top, t) :
        top \in {ReleasedTop(t, v), ExtractName(ArchiveName(UrlOf(t, v))), <<t, "_", "src">>} }
    \cup { File(GenuineBytes(t) \o <<0>>, TRUE, ReleasedTop(t, v), t) }

\* A file that is no tarball: what an interrupted download leaves.
Truncated == File(<<>>, FALSE, <<>>, "none")

-----------------------------------------------------------------------------
(* Control: the statements run one after the other; an exception that nobody *)
(* catches ends the run.                                                     *)

\* The function returns (or the statement is done): on to the next statement.
Return ==
    IF rest = <<>> THEN pc' = "done" /\ rest' = <<>>
    ELSE pc' = Head(rest) /\ rest' = Tail(rest)

\* An exception propagates to the top: nothing in the file catches any.
Raise == pc' = "raised" /\ rest' = <<>>

\* One external effect, appended to the history.
Event(e, rc) == [ev |-> e, target |-> target, rc |-> rc]

Log(e, rc) == calls' = Append(calls, Event(e, rc))

\* The exit codes a subprocess may end with.
ExitCodes == {0, 1}

\* The events e of target t, in order.
EventsOf(t, e) == SelectSeq(calls, LAMBDA c : c.target = t /\ c.ev = e)

Happened(t, e) == Len(EventsOf(t, e)) > 0

-----------------------------------------------------------------------------
(* download_and_extract *)

\* The idle frame of download_and_extract.
NoDl == [state |-> "idle", url |-> <<>>, destdir |-> None, shasum |-> <<>>,
         check_file_hash |-> FALSE, tararchive |-> <<>>, extract_dir |-> <<>>]

\* The call: the arguments as build_pkgconf and build_cairo pass them, and
\* tararchive = Path(destdir, url.path.split("/")[-1]).
DlCall ==
    /\ pc = "download_and_extract"
    /\ dl' = [state |-> "running",
              url |-> UrlOf(target, loc.version),
              destdir |-> loc.build_dir,
              shasum |-> loc.file_hash_sha256,
              check_file_hash |-> loc.check_file_hash,
              tararchive |-> ArchiveName(UrlOf(target, loc.version)),
              extract_dir |-> <<>>]
    /\ pc' = "dl_fetch"
    /\ UNCHANGED <<rest, argv, op, target, loc, fs, libdir, ENVIRON, calls, vs, mes, sha>>

Entries == fs[dl.destdir].entries

SetEntries(e) == fs' = [fs EXCEPT ![dl.destdir].entries = e]

\* if not tararchive.exists(): urllib.request.urlretrieve(url, tararchive)
\* The server sends some tarball, or the transfer fails and leaves nothing or
\* a truncated file.
DlFetch ==
    /\ pc = "dl_fetch"
    /\ IF dl.tararchive \in DOMAIN Entries
       THEN /\ pc' = "dl_check"
            /\ UNCHANGED <<rest, fs, calls>>
       ELSE \/ \E a \in Tarballs(target, loc.version) :
                 /\ SetEntries(Put(Entries, dl.tararchive, a))
                 /\ Log("download", 0)
                 /\ pc' = "dl_check"
                 /\ UNCHANGED rest
            \/ /\ \/ UNCHANGED fs
                   \/ SetEntries(Put(Entries, dl.tararchive, Truncated))
               /\ Log("download", 1)
               /\ Raise
    /\ UNCHANGED <<argv, op, target, loc, libdir, ENVIRON, vs, mes, dl, sha>>

\* A gate that lets every archive through unchecked.
HashCheckSkipped(check_file_hash) == FALSE

\* The gate of line 260: the digest is compared when check_file_hash is true.
HashIsChecked(check_file_hash) == check_file_hash

\* if check_file_hash: check_sha256(tararchive, shasum)
DlCheck ==
    /\ pc = "dl_check"
    /\ IF HashIsChecked(dl.check_file_hash)
       THEN IF check_sha256_raises(Entries[dl.tararchive].bytes, dl.shasum)
            THEN Log("sha256_raised", 1) /\ Raise
            ELSE Log("sha256_matched", 0) /\ pc' = "dl_extract" /\ UNCHANGED rest
       ELSE pc' = "dl_extract" /\ UNCHANGED <<rest, calls>>
    /\ UNCHANGED <<argv, op, target, loc, fs, libdir, ENVIRON, vs, mes, dl, sha>>

\* tar.extractall(destdir): the archive's top-level folder appears in destdir
\* (over a directory of that name if there is one); a file of that name is in
\* the way and the extraction fails.
ExtractAll(entries, tar) ==
    Put(entries, tar.top, Dir(tar.origin, FALSE, FALSE, FALSE, {}))

\* extract_dir = Path(destdir, ".".join(tararchive.name.split(".")[:-2]))
\* if not extract_dir.exists() or not extract_dir.is_dir():
\*     with tarfile.open(tararchive) as tar: tar.extractall(destdir)
DlExtract ==
    /\ pc = "dl_extract"
    /\ LET extract_dir == ExtractName(dl.tararchive)
           tar == Entries[dl.tararchive]
       IN  IF extract_dir \notin DOMAIN Entries \/ Entries[extract_dir].kind # "dir"
           THEN IF ~tar.valid
                     \/ (tar.top \in DOMAIN Entries /\ Entries[tar.top].kind # "dir")
                THEN /\ Log("extractall", 1)
                     /\ Raise
                     /\ dl' = [dl EXCEPT !.extract_dir = extract_dir]
                     /\ UNCHANGED <<fs, loc>>
                ELSE /\ SetEntries(ExtractAll(Entries, tar))
                     /\ Log("extractall", 0)
                     /\ pc' = "dl_move"
                     /\ dl' = [dl EXCEPT !.extract_dir = extract_dir]
                     /\ UNCHANGED <<rest, loc>>
           ELSE /\ Return
                /\ dl' = [dl EXCEPT !.extract_dir = extract_dir, !.state = "returned"]
                /\ loc' = [loc EXCEPT !.root_dir = extract_dir]
                /\ UNCHANGED <<fs, calls>>
    /\ UNCHANGED <<argv, op, target, libdir, ENVIRON, vs, mes, sha>>

\* list(Path(destdir).glob("*-*-*")): the matching entries, in the order the
\* directory lists them, which is any order.
GlobList(entries) == {n \in DOMAIN entries : GlobMatches(n)}

\* if not extract_dir.exists():
\*     shutil.move(list(Path(destdir).glob("*-*-*"))[0], extract_dir)
\* return extract_dir
DlMove ==
    /\ pc = "dl_move"
    /\ IF dl.extract_dir \notin DOMAIN Entries
       THEN IF GlobList(Entries) = {}
            THEN \* [][0] of an empty list: IndexError
                 /\ Log("move", 1)
                 /\ Raise
                 /\ UNCHANGED <<fs, loc, dl>>
            ELSE \E first \in GlobList(Entries) :
                 /\ SetEntries(Put(Del(Entries, first), dl.extract_dir, Entries[first]))
                 /\ Log("move", 0)
                 /\ Return
                 /\ dl' = [dl EXCEPT !.state = "returned"]
                 /\ loc' = [loc EXCEPT !.root_dir = dl.extract_dir]
       ELSE /\ Return
            /\ dl' = [dl EXCEPT !.state = "returned"]
            /\ loc' = [loc EXCEPT !.root_dir = dl.extract_dir]
            /\ UNCHANGED <<fs, calls>>
    /\ UNCHANGED <<argv, op, target, libdir, ENVIRON, vs, mes, sha>>

-----------------------------------------------------------------------------
(* The frames and values that are the same in every specification. *)

\* The parameters and locals of a build function.
Locals(t, build_dir, check_file_hash, file_hash_sha256, build_type) ==
    [version |-> DefaultVersion(t), build_dir |-> build_dir,
     check_file_hash |-> check_file_hash, file_hash_sha256 |-> file_hash_sha256,
     build_type |-> build_type, msvc |-> None, root_dir |-> None, meson |-> None,
     found_dir |-> FALSE, cached |-> FALSE, pending |-> {}]

NoLocals == Locals("cairo", None, FALSE, <<>>, "static")

NoArgv == [build_pkgconf |-> None, build_cairo |-> None,
           check_file_hash |-> None, build_dir |-> None]

NoOp == [build_pkgconf |-> FALSE, build_cairo |-> FALSE,
         check_file_hash |-> FALSE, build_dir |-> None]

\* The process as setup_vs sees it when nothing is known of it.
NoWorld == [platform |-> "linux", OSTYPE |-> None, PATH_has_VS |-> FALSE,
            VSINSTALLDIR |-> FALSE, gcc_python |-> FALSE, which |-> {}]

NoVs == [state |-> "idle", w |-> NoWorld, ret |-> None, before |-> None, ran |-> {}]

NoMes == [state |-> "idle", usr |-> {}, patch |-> "PATH", missing |-> FALSE, venv_existed |-> FALSE,
          usable |-> FALSE, provisions |-> 0, still_unusable |-> FALSE,
          ret |-> None, ninja |-> None]

NoSha == [state |-> "idle"]

\* os.environ.copy() at import: the ambient PATH.
AmbientENVIRON == [PATH |-> <<"usr">>, PKG_CONFIG_PATH |-> None, PKG_CONFIG |-> None,
                   INCLUDE |-> None]

-----------------------------------------------------------------------------
(* download_and_extract on its own: every build directory it may be given. *)

BuildDirIds == {"pkgconf", "cairo", "given"}

\* What the name n may be in a build directory before the call.
MaybeEntry(n, choices) == {<<>>} \cup { Put(<<>>, n, c) : c \in choices }

\* The union of functions with disjoint domains.
Merge(f, g) == [x \in (DOMAIN f) \cup (DOMAIN g) |-> IF x \in DOMAIN f THEN f[x] ELSE g[x]]

Stray == <<"a", "-", "b", "-", "c">>

\* The build directories download_and_extract may find: the archive absent,
\* cached or truncated; the extracted folder absent, there (from a run before),
\* or a file of that name; another entry with two "-" in its name or not.
DlDirs(t) ==
    LET v == DefaultVersion(t)
        arch == ArchiveName(UrlOf(t, v))
        ex == ExtractName(arch)
    IN  { [exists |-> TRUE, entries |-> Merge(Merge(a, e), o)] :
            a \in MaybeEntry(arch, Tarballs(t, v) \cup {Truncated}),
            e \in MaybeEntry(ex, {Dir(t, FALSE, FALSE, FALSE, {}),
                                  Dir(t, TRUE, TRUE, TRUE, {}),
                                  File(<<>>, FALSE, <<>>, "none")}),
            o \in MaybeEntry(Stray, {Dir("stray", FALSE, FALSE, FALSE, {})}) }

InitExtract ==
    /\ pc = "download_and_extract"
    /\ rest = <<>>
    /\ argv = NoArgv
    /\ op = NoOp
    /\ target \in Targets
    /\ \E check \in BOOLEAN :
          loc = Locals(target, target, check, DefaultSha(target), "static")
    /\ \E d \in DlDirs(target) :
          fs = [b \in BuildDirIds |-> IF b = target THEN d ELSE NoDir]
    /\ libdir = <<>>
    /\ ENVIRON = AmbientENVIRON
    /\ calls = <<>>
    /\ vs = NoVs
    /\ mes = NoMes
    /\ dl = NoDl
    /\ sha = NoSha

NextExtract == DlCall \/ DlFetch \/ DlCheck \/ DlExtract \/ DlMove

SpecExtract == InitExtract /\ [][NextExtract]_vars

-----------------------------------------------------------------------------
(* check_sha256 on its own: every short file against every expected string. *)

ByteSample == {0, 73, 215}

\* The files of at most n bytes.
FilesUpTo(n) == UNION { [1..k -> ByteSample] : k \in 0..n }

\* The characters an expected digest is written with, capitals among them.
HashChars == {"0", "4", "9", "d", "D", "7"}

\* check_sha256(filepath, hash)
CheckSha256 ==
    /\ pc = "check_sha256"
    /\ sha' = [sha EXCEPT !.state = IF check_sha256_raises(sha.file, sha.hash)
                                     THEN "raised" ELSE "matched",
                          !.file_sha = get_sha256_from_file(sha.file)]
    /\ IF check_sha256_raises(sha.file, sha.hash) THEN Raise ELSE Return
    /\ UNCHANGED <<argv, op, target, loc, fs, libdir, ENVIRON, calls, vs, mes, dl>>

InitSha ==
    /\ pc = "check_sha256"
    /\ rest = <<>>
    /\ argv = NoArgv
    /\ op = NoOp
    /\ target = "cairo"
    /\ loc = NoLocals
    /\ fs = [b \in BuildDirIds |-> NoDir]
    /\ libdir = <<>>
    /\ ENVIRON = AmbientENVIRON
    /\ calls = <<>>
    /\ vs = NoVs
    /\ mes = NoMes
    /\ dl = NoDl
    /\ \E f \in FilesUpTo(MaxFileLen), h \in [1..2 -> HashChars] :
          sha = [state |-> "called", file |-> f, hash |-> h, file_sha |-> <<>>]

NextSha == CheckSha256

SpecSha == InitSha /\ [][NextSha]_vars

-----------------------------------------------------------------------------
(* setup_vs *)

Compilers == {"cl.exe", "cc", "gcc", "clang", "clang-cl"}

\* One line of the batch file's output: k=v, or a text without "=".
KV(k, v) == [k |-> k, eq |-> TRUE, v |-> v]

Text(t) == [k |-> t, eq |-> FALSE, v |-> <<>>]

bat_separator == "---SPLIT---"

\* What the batch file may print: the banner of vcvars, the separator, the
\* variables that SET lists.
BatOutputs ==
    { <<Text("banner"), Text(bat_separator), KV("Path", <<"vs", "usr">>),
        KV("INCLUDE", <<"vsinclude">>), Text("")>>,
      <<Text(bat_separator), KV("PATH", <<"vs", "usr">>), Text("")>>,
      <<KV("PATH", <<"banner">>), Text(bat_separator), Text("")>>,
      <<Text(bat_separator), Text("banner")>> }

\* k.lower() == "path"
IsPathKey(k) == k \in {"PATH", "Path", "path"}

RECURSIVE MergeLines(_, _, _)
\* The loop over bat_lines: what follows the separator is merged into ENVIRON;
\* a line without "=" there cannot be unpacked into k, v (ValueError).
MergeLines(lines, seen, env) ==
    IF lines = <<>> THEN [raised |-> FALSE, env |-> env]
    ELSE LET bat_line == Head(lines) IN
         IF ~bat_line.eq /\ bat_line.k = bat_separator
         THEN MergeLines(Tail(lines), TRUE, env)
         ELSE IF ~seen THEN MergeLines(Tail(lines), seen, env)
         ELSE IF ~bat_line.eq /\ bat_line.k = "" THEN MergeLines(Tail(lines), seen, env)
         ELSE IF ~bat_line.eq THEN [raised |-> TRUE, env |-> env]
         ELSE MergeLines(Tail(lines), seen,
                         [env EXCEPT ![IF IsPathKey(bat_line.k) THEN "PATH" ELSE bat_line.k]
                                        = bat_line.v])

\* The compiler test of lines 179-189 as the upstream function has it: any
\* compiler on PATH, whatever built the interpreter.
CompilerFoundAnyPython(w) == w.which # {}

\* Lines 179-189: only under an interpreter built with GCC are cl.exe, cc,
\* gcc, clang and clang-cl looked up.
CompilerFound(w) == w.gcc_python /\ w.which \cap Compilers # {}

\* Lines 168-189: the cases in which setup_vs returns False at once.
ReturnsFalseEarly(w) ==
    \/ w.platform # "win32"
    \/ w.OSTYPE = "cygwin"
    \/ w.PATH_has_VS
    \/ w.VSINSTALLDIR
    \/ CompilerFound(w)

\* setup_vs(arch), the whole call.  The locator and the batch file are
\* subprocesses: what they find and print is theirs.
SetupVs ==
    /\ pc = "setup_vs"
    /\ LET w == vs.w
           called == [vs EXCEPT !.before = ENVIRON, !.ran = {}]
       IN
       IF ReturnsFalseEarly(w)
       THEN /\ vs' = [called EXCEPT !.state = "returned", !.ret = FALSE]
            /\ loc' = [loc EXCEPT !.msvc = IF target = "cairo" THEN FALSE ELSE @]
            /\ Return
            /\ UNCHANGED <<ENVIRON, calls>>
       ELSE
         \/ \* vswhere.exe is not there, exits non-zero, prints no JSON or an
            \* empty list; or vcvars<arch>.bat is not there
            \E ran \in {{}, {"vswhere"}} :
               /\ vs' = [called EXCEPT !.state = "raised", !.ran = ran]
               /\ calls' = IF ran = {} THEN calls ELSE Append(calls, Event("vswhere", 0))
               /\ Raise
               /\ UNCHANGED <<ENVIRON, loc>>
         \/ \* the batch file exits non-zero
            /\ vs' = [called EXCEPT !.state = "raised", !.ran = {"vswhere", "bat"}]
            /\ calls' = calls \o <<Event("vswhere", 0), Event("bat", 1)>>
            /\ Raise
            /\ UNCHANGED <<ENVIRON, loc>>
         \/ \E bat_output \in BatOutputs :
               LET m == MergeLines(bat_output, FALSE, ENVIRON) IN
               /\ calls' = calls \o <<Event("vswhere", 0), Event("bat", 0)>>
               /\ ENVIRON' = m.env
               /\ IF m.raised
                  THEN /\ vs' = [called EXCEPT !.state = "raised", !.ran = {"vswhere", "bat"}]
                       /\ Raise
                       /\ UNCHANGED loc
                  ELSE /\ vs' = [called EXCEPT !.state = "returned", !.ret = TRUE,
                                               !.ran = {"vswhere", "bat"}]
                       /\ loc' = [loc EXCEPT !.msvc = IF target = "cairo" THEN TRUE ELSE @]
                       /\ Return
    /\ UNCHANGED <<argv, op, target, fs, libdir, mes, dl, sha>>

\* Every process setup_vs may run in.
Worlds ==
    [platform : {"win32", "linux"}, OSTYPE : {None, "cygwin"}, PATH_has_VS : BOOLEAN,
     VSINSTALLDIR : BOOLEAN, gcc_python : BOOLEAN, which : SUBSET Compilers]

InitVs ==
    /\ pc = "setup_vs"
    /\ rest = <<>>
    /\ argv = NoArgv
    /\ op = NoOp
    /\ target = "cairo"
    /\ loc = NoLocals
    /\ fs = [b \in BuildDirIds |-> NoDir]
    /\ libdir = <<>>
    /\ ENVIRON = AmbientENVIRON
    /\ calls = <<>>
    /\ \E w \in Worlds : vs = [NoVs EXCEPT !.state = "called", !.w = w]
    /\ mes = NoMes
    /\ dl = NoDl
    /\ sha = NoSha

NextVs == SetupVs

SpecVs == InitVs /\ [][NextVs]_vars

-----------------------------------------------------------------------------
(* get_meson_executable *)

Tools == {"meson", "ninja"}

VenvName == <<"meson_venv">>

\* (venv_location / 'Scripts').absolute() and (venv_location / 'bin').absolute()
\* for the venv of build directory b, as PATH entries.
VenvScripts(b) ==
    CASE b = "pkgconf" -> "pkgconf/meson_venv/Scripts"
      [] b = "cairo" -> "cairo/meson_venv/Scripts"
      [] OTHER -> "given/meson_venv/Scripts"

VenvBin(b) ==
    CASE b = "pkgconf" -> "pkgconf/meson_venv/bin"
      [] b = "cairo" -> "cairo/meson_venv/bin"
      [] OTHER -> "given/meson_venv/bin"

\* The executables of a venv, which python -m venv puts under Scripts on
\* Windows and under bin elsewhere.
VenvTools(fsx, b) ==
    IF fsx[b].exists /\ VenvName \in DOMAIN fsx[b].entries
    THEN fsx[b].entries[VenvName].tools ELSE {}

\* The tools found in the PATH entry p.
ToolsAt(p, fsx, usr, platform) ==
    IF p = "usr" THEN usr
    ELSE IF \E b \in BuildDirIds : p = VenvScripts(b) /\ platform = "win32"
         THEN VenvTools(fsx, CHOOSE b \in BuildDirIds : p = VenvScripts(b))
    ELSE IF \E b \in BuildDirIds : p = VenvBin(b) /\ platform # "win32"
         THEN VenvTools(fsx, CHOOSE b \in BuildDirIds : p = VenvBin(b))
    ELSE {}

\* shutil.which(tool, path=path): the first entry of path that has it, or None.
Which(tool, path, fsx, usr, platform) ==
    LET hits == {i \in 1..Len(path) : tool \in ToolsAt(path[i], fsx, usr, platform)}
    IN  IF hits = {} THEN None
        ELSE path[CHOOSE i \in hits : \A j \in hits : i <= j]

\* os.environ["PATH"], which the program never changes.
AmbientPATH == <<"usr">>

\* create_venv_and_install_meson(venv_location): python -m venv, then pip
\* install ninja meson; run_command raises on a non-zero exit.  The outcomes:
\* whether there is a venv afterwards and its tools, whether it raised, the
\* exits.  pip installs both tools, or finds both packages installed already
\* in a venv that was there and changes nothing.
CreateVenvAndInstall(existed, before) ==
    { [venv |-> existed, tools |-> before, raised |-> TRUE, exits |-> <<1>>],
      [venv |-> TRUE, tools |-> before, raised |-> TRUE, exits |-> <<1>>],
      [venv |-> TRUE, tools |-> before, raised |-> TRUE, exits |-> <<0, 1>>],
      [venv |-> TRUE, tools |-> Tools, raised |-> FALSE, exits |-> <<0, 0>>] }
    \cup (IF existed
          THEN {[venv |-> TRUE, tools |-> before, raised |-> FALSE, exits |-> <<0, 0>>]}
          ELSE {})

\* A venv that is provisioned whenever a tool is missing on PATH, usable or not.
ProvisionIsNeededAlways(venv_exists, usable) == TRUE

\* Lines 114-122: the venv is provisioned when it is not there, or when it is
\* there and meson or ninja is still not found.
ProvisionIsNeeded(venv_exists, usable) == ~venv_exists \/ ~usable

\* The build directory b with a venv holding these tools, or as it was.
WithVenv(fsx, b, venv, tools) ==
    IF ~venv THEN fsx
    ELSE [fsx EXCEPT ![b].entries =
            Put(@, VenvName, Dir("venv", FALSE, FALSE, FALSE, tools))]

\* get_meson_executable(build_dir), the whole call.
GetMeson ==
    /\ pc = "get_meson_executable"
    /\ LET b == loc.build_dir
           usr == mes.usr
           platform == vs.w.platform
           meson0 == Which("meson", AmbientPATH, fs, usr, platform)
           ninja0 == Which("ninja", AmbientPATH, fs, usr, platform)
           missing == meson0 = None \/ ninja0 = None
           path == IF missing THEN <<VenvScripts(b), VenvBin(b)>> \o ENVIRON.PATH
                   ELSE ENVIRON.PATH
           venv_exists == VenvName \in DOMAIN fs[b].entries
           usable == /\ Which("meson", path, fs, usr, platform) # None
                     /\ Which("ninja", path, fs, usr, platform) # None
           seen == [mes EXCEPT !.missing = missing, !.venv_existed = venv_exists,
                               !.usable = usable, !.provisions = 0,
                               !.still_unusable = FALSE,
                               !.ret = None, !.ninja = None]
       IN
       /\ ENVIRON' = [ENVIRON EXCEPT !.PATH = path]
       /\ IF missing /\ ProvisionIsNeeded(venv_exists, usable)
          THEN \E o \in CreateVenvAndInstall(venv_exists, VenvTools(fs, b)) :
               LET fs1 == WithVenv(fs, b, o.venv, o.tools)
                   meson == Which("meson", path, fs1, usr, platform)
                   ninja == Which("ninja", path, fs1, usr, platform)
               IN
               /\ fs' = fs1
               /\ calls' = calls \o [i \in 1..Len(o.exits) |->
                                Event(IF i = 1 THEN "venv" ELSE "pip", o.exits[i])]
               /\ IF o.raised
                  THEN /\ mes' = [seen EXCEPT !.state = "raised", !.provisions = 1]
                       /\ Raise
                       /\ UNCHANGED loc
                  ELSE /\ mes' = [seen EXCEPT !.state = "returned", !.provisions = 1,
                                              !.still_unusable =
                                                  (meson = None \/ ninja = None),
                                              !.ret = meson, !.ninja = ninja]
                       /\ loc' = [loc EXCEPT !.meson = meson]
                       /\ Return
          ELSE /\ mes' = [seen EXCEPT !.state = "returned",
                                      !.ret = Which("meson", path, fs, usr, platform),
                                      !.ninja = Which("ninja", path, fs, usr, platform)]
               /\ loc' = [loc EXCEPT !.meson = Which("meson", path, fs, usr, platform)]
               /\ Return
               /\ UNCHANGED <<fs, calls>>
    /\ UNCHANGED <<argv, op, target, libdir, vs, dl, sha>>

\* ENVIRON["PATH"] when get_meson_executable is called: the ambient one, or
\* the one the batch file of setup_vs printed.
PathsBefore == {<<"usr">>, <<"vs", "usr">>}

InitMeson ==
    /\ pc = "get_meson_executable"
    /\ rest = <<>>
    /\ argv = NoArgv
    /\ op = NoOp
    /\ target \in Targets
    /\ loc = Locals(target, target, TRUE, DefaultSha(target), "static")
    /\ \E venv \in BOOLEAN, tools \in SUBSET Tools :
          /\ venv \/ tools = {}
          /\ fs = [b \in BuildDirIds |->
                  IF b = target
                  THEN WithVenv([x \in BuildDirIds |-> [exists |-> TRUE, entries |-> <<>>]],
                                b, venv, tools)[b]
                  ELSE NoDir]
    /\ libdir = <<>>
    /\ \E p \in PathsBefore : ENVIRON = [AmbientENVIRON EXCEPT !.PATH = p]
    /\ calls = <<>>
    /\ \E platform \in {"win32", "linux"} :
          vs = [NoVs EXCEPT !.w = [NoWorld EXCEPT !.platform = platform]]
    /\ \E usr \in SUBSET Tools : mes = [NoMes EXCEPT !.state = "called", !.usr = usr]
    /\ dl = NoDl
    /\ sha = NoSha

NextMeson == GetMeson

SpecMeson == InitMeson /\ [][NextMeson]_vars

-----------------------------------------------------------------------------
(* build_pkgconf and build_cairo *)

\* build_dir: the option, or ./build-<target>-v<version>-x<arch>.
BuildDirOf(t) == IF op.build_dir = None THEN t ELSE "given"

\* Whether the build directory d holds, for target t, the archive, the
\* extracted tree and the build subdirectory of a run before.
HoldsFinishedRun(d, t) ==
    LET arch == ArchiveName(UrlOf(t, DefaultVersion(t)))
        ex == ExtractName(arch)
    IN  /\ d.exists
        /\ arch \in DOMAIN d.entries
        /\ ex \in DOMAIN d.entries
        /\ d.entries[ex].kind = "dir"
        /\ d.entries[ex].built

\* The statements of build_pkgconf after the build directory is made.
PkgconfBody ==
    <<"setup_vs", "download_and_extract", "get_meson_executable",
      "meson_setup", "meson_compile", "meson_install">>

\* The statements of build_cairo after the build directory is there.
CairoBody ==
    <<"setup_vs", "download_and_extract", "copy_subprojects", "apply_patch",
      "get_meson_executable", "meson_setup", "meson_compile", "meson_install",
      "postprocess">>

\* A build that goes on in a build directory that is there.
SkipsBuildNever(exists) == FALSE

\* build_pkgconf, line 288: if build_dir.exists(): return
SkipsBuild(exists) == exists

\* build_pkgconf, lines 285-299: an existing build directory ends the
\* function at once; else it is made.
BuildPkgconf ==
    /\ pc = "build_pkgconf"
    /\ target' = "pkgconf"
    /\ LET b == BuildDirOf("pkgconf")
           l == [Locals("pkgconf", b, op.check_file_hash, SHA256SUM_PKGCONF, "static")
                   EXCEPT !.found_dir = fs[b].exists,
                          !.cached = HoldsFinishedRun(fs[b], "pkgconf")]
       IN  /\ loc' = l
           /\ IF SkipsBuild(fs[b].exists)
              THEN Return /\ UNCHANGED fs
              ELSE /\ fs' = [fs EXCEPT ![b].exists = TRUE]
                   /\ pc' = Head(PkgconfBody)
                   /\ rest' = Tail(PkgconfBody) \o rest
    /\ UNCHANGED <<argv, op, libdir, ENVIRON, calls, vs, mes, dl, sha>>

\* build_cairo, lines 360-372: the build directory is made unless it is there.
BuildCairo ==
    /\ pc = "build_cairo"
    /\ target' = "cairo"
    /\ LET b == BuildDirOf("cairo")
           l == [Locals("cairo", b, op.check_file_hash, SHA256SUM_CAIRO, "static")
                   EXCEPT !.found_dir = fs[b].exists,
                          !.cached = HoldsFinishedRun(fs[b], "cairo")]
       IN  /\ loc' = l
           /\ fs' = [fs EXCEPT ![b].exists = TRUE]
           /\ pc' = Head(CairoBody)
           /\ rest' = Tail(CairoBody) \o rest
    /\ UNCHANGED <<argv, op, libdir, ENVIRON, calls, vs, mes, dl, sha>>

Root == fs[loc.build_dir].entries[loc.root_dir]

SetRoot(tree) == fs' = [fs EXCEPT ![loc.build_dir].entries[loc.root_dir] = tree]

\* build_cairo, lines 387-391: the bundled subprojects replace those of the
\* tree.
CopySubprojects ==
    /\ pc = "copy_subprojects"
    /\ IF Root.kind = "dir"
       THEN SetRoot([Root EXCEPT !.subprojects = TRUE]) /\ Return
       ELSE Raise /\ UNCHANGED fs
    /\ UNCHANGED <<argv, op, target, loc, libdir, ENVIRON, calls, vs, mes, dl, sha>>

\* apply_patch(patch_location, cwd): patch -p1 -i <patch> in the tree; without
\* a patch on PATH, the one of msys2 on Windows, which must exist.
ApplyPatch ==
    /\ pc = "apply_patch"
    /\ IF \/ mes.patch = "none"
          \/ mes.patch = "msys2" /\ vs.w.platform # "win32"
       THEN Raise /\ UNCHANGED <<fs, calls>>
       ELSE \E rc \in ExitCodes :
              /\ Log("patch", rc)
              /\ IF rc = 0
                 THEN SetRoot([Root EXCEPT !.patched = TRUE]) /\ Return
                 ELSE Raise /\ UNCHANGED fs
    /\ UNCHANGED <<argv, op, target, loc, libdir, ENVIRON, vs, mes, dl, sha>>

\* A run_command that goes on whatever the exit code is.
SucceedsAlways(rc) == TRUE

\* run_command with check=True: a non-zero exit raises CalledProcessError;
\* an executable that is None cannot be run at all.
Succeeds(rc) == rc = 0

\* Lines 312-329 and 404-433: the stale build subdirectory is removed, for
\* cairo pkg-config is disabled in ENVIRON, and meson setup runs.
MesonSetup ==
    /\ pc = "meson_setup"
    /\ ENVIRON' = IF target = "cairo"
                  THEN [ENVIRON EXCEPT !.PKG_CONFIG_PATH = "",
                                       !.PKG_CONFIG = "invalid-executable"]
                  ELSE ENVIRON
    /\ IF loc.meson = None
       THEN /\ SetRoot([Root EXCEPT !.built = FALSE])
            /\ Raise
            /\ UNCHANGED calls
       ELSE \E rc \in ExitCodes :
              /\ Log("setup", rc)
              /\ SetRoot([Root EXCEPT !.built = (rc = 0)])
              /\ IF Succeeds(rc) THEN Return ELSE Raise
    /\ UNCHANGED <<argv, op, target, loc, libdir, vs, mes, dl, sha>>

\* meson compile -C <meson_build_dir>
MesonCompile ==
    /\ pc = "meson_compile"
    /\ \E rc \in ExitCodes :
          /\ Log("compile", rc)
          /\ IF Succeeds(rc) THEN Return ELSE Raise
    /\ UNCHANGED <<argv, op, target, loc, fs, libdir, ENVIRON, vs, mes, dl, sha>>

\* The static libraries meson installs for target t.
InstalledLibs(t) ==
    IF t = "cairo"
    THEN {<<"lib", "cairo", ".", "a">>, <<"lib", "pixman", "-", "1", ".", "a">>}
    ELSE {<<"lib", "pkgconf", ".", "a">>}

\* meson install --no-rebuild -C <meson_build_dir>
MesonInstall ==
    /\ pc = "meson_install"
    /\ \E rc \in ExitCodes :
          /\ Log("install", rc)
          /\ IF Succeeds(rc)
             THEN /\ libdir' = [n \in (DOMAIN libdir) \cup InstalledLibs(target) |->
                                  IF n \in InstalledLibs(target) THEN n ELSE libdir[n]]
                  /\ Return
             ELSE Raise /\ UNCHANGED libdir
    /\ UNCHANGED <<argv, op, target, loc, fs, ENVIRON, vs, mes, dl, sha>>

-----------------------------------------------------------------------------
(* build_cairo, lines 456-461: lib*.a is copied to *.lib *)

\* libdir.glob("lib*.a"): the name starts with lib and ends with .a
GlobLib(n) ==
    /\ Len(n) >= 3
    /\ n[1] = "lib"
    /\ n[Len(n) - 1] = "."
    /\ n[Len(n)] = "a"

\* The group "name" of re.match(r"lib(?P<name>\S*)\.a", n), the longest run
\* without white space after lib that .a follows; <<None>> when nothing
\* matches.
LibregName(n) ==
    LET ends == {k \in 1..(Len(n) - 2) :
                    /\ n[1] = "lib"
                    /\ \A i \in 2..k : n[i] # " "
                    /\ n[k + 1] = "."
                    /\ n[k + 2] = "a"}
    IN  IF ends = {} THEN <<None>>
        ELSE SubSeq(n, 2, CHOOSE k \in ends : \A j \in ends : j <= k)

\* if build_type == "static" and msvc: the files to copy, as the glob lists
\* them when the loop starts.
PostProcess ==
    /\ pc = "postprocess"
    /\ IF loc.build_type = "static" /\ loc.msvc = TRUE
       THEN /\ loc' = [loc EXCEPT !.pending = {n \in DOMAIN libdir : GlobLib(n)}]
            /\ pc' = "copy_lib"
            /\ UNCHANGED rest
       ELSE Return /\ UNCHANGED loc
    /\ UNCHANGED <<argv, op, target, fs, libdir, ENVIRON, calls, vs, mes, dl, sha>>

\* One turn of the loop: name = libreg.match(lib.name).group("name") + ".lib",
\* shutil.copyfile(lib, libdir / name).  match() of a name the pattern does not
\* match is None, and .group raises.
CopyLib ==
    /\ pc = "copy_lib"
    /\ IF loc.pending = {}
       THEN Return /\ UNCHANGED <<loc, libdir>>
       ELSE \E lib \in loc.pending :
              IF LibregName(lib) = <<None>>
              THEN Raise /\ UNCHANGED <<loc, libdir>>
              ELSE /\ libdir' = Put(libdir, LibregName(lib) \o <<".", "lib">>, libdir[lib])
                   /\ loc' = [loc EXCEPT !.pending = @ \ {lib}]
                   /\ UNCHANGED <<pc, rest>>
    /\ UNCHANGED <<argv, op, target, fs, ENVIRON, calls, vs, mes, dl, sha>>

\* The names <prefix>/lib may hold.
LibNames ==
    { <<"lib", "cairo", ".", "a">>,
      <<"lib", "pixman", "-", "1", ".", "a">>,
      <<"lib", ".", "a">>,
      <<"lib", "cairo", ".", "dll", ".", "a">>,
      <<"lib", "my", " ", "codec", ".", "a">>,
      <<"lib", "cairo", ".", "a", " ", "copy", ".", "a">>,
      <<"lib", "cairo", ".", "so">>,
      <<"cairo", ".", "lib">> }

\* The directories of at most n files; a file's content is named after the
\* file it was first.
LibDirs(n) ==
    { [x \in S |-> x] : S \in {T \in SUBSET LibNames : Cardinality(T) <= n} }

InitLib ==
    /\ pc = "postprocess"
    /\ rest = <<>>
    /\ argv = NoArgv
    /\ op = NoOp
    /\ target = "cairo"
    /\ \E build_type \in {"static", "shared"}, msvc \in BOOLEAN :
          loc = [Locals("cairo", "cairo", TRUE, SHA256SUM_CAIRO, build_type)
                   EXCEPT !.msvc = msvc]
    /\ fs = [b \in BuildDirIds |-> NoDir]
    /\ libdir \in LibDirs(MaxLibs)
    /\ ENVIRON = AmbientENVIRON
    /\ calls = <<Event("install", 0)>>
    /\ vs = NoVs
    /\ mes = NoMes
    /\ dl = NoDl
    /\ sha = NoSha

NextLib == PostProcess \/ CopyLib

SpecLib == InitLib /\ [][NextLib]_vars

-----------------------------------------------------------------------------
(* __main__: the command line, then the builds it asks for. *)

\* bool(s) of a string, which argparse applies for type=bool.
PyBool(s) == s # ""

\* --check-file-hash: default=True, type=bool
ParseCheckFileHash(a) == IF a = None THEN TRUE ELSE PyBool(a)

\* parser.parse_args(): --build-pkgconf and --build-cairo are
\* BooleanOptionalAction (default None and True), --build-dir has no default.
ParseArgs(a) ==
    [build_pkgconf |-> (a.build_pkgconf = "--build-pkgconf"),
     build_cairo |-> (a.build_cairo # "--no-build-cairo"),
     check_file_hash |-> ParseCheckFileHash(a.check_file_hash),
     build_dir |-> a.build_dir]

\* Lines 520-536: op = parser.parse_args(), then build_pkgconf if asked for,
\* then build_cairo if asked for.
Main ==
    /\ pc = "main"
    /\ op' = ParseArgs(argv)
    /\ LET todo == (IF op'.build_pkgconf THEN <<"build_pkgconf">> ELSE <<>>)
                   \o (IF op'.build_cairo THEN <<"build_cairo">> ELSE <<>>)
       IN  IF todo = <<>> THEN pc' = "done" /\ rest' = <<>>
           ELSE pc' = Head(todo) /\ rest' = Tail(todo)
    /\ UNCHANGED <<argv, target, loc, fs, libdir, ENVIRON, calls, vs, mes, dl, sha>>

\* The command lines.
CommandLines ==
    [build_pkgconf : {None, "--build-pkgconf"},
     build_cairo : {None, "--no-build-cairo"},
     check_file_hash : {None, "", "False", "True"},
     build_dir : {None, "given"}]

\* What a run before left in the build directory of t.
LeftBy(t, bytes, built) ==
    LET v == DefaultVersion(t)
        arch == ArchiveName(UrlOf(t, v))
        tree == Dir(t, t = "cairo" /\ built, t = "cairo" /\ built, built, {})
        venv == IF built THEN Put(<<>>, VenvName, Dir("venv", FALSE, FALSE, FALSE, Tools))
                ELSE <<>>
    IN  [exists |-> TRUE,
         entries |-> Merge(Merge(Put(<<>>, arch, File(bytes, TRUE, ReleasedTop(t, v), t)),
                                 Put(<<>>, ExtractName(arch), tree)), venv)]

\* The build directory of t when the program starts: not there, or left by
\* a finished run (with the archive it downloaded, or with one whose bytes
\* have changed since), or by one that stopped after the extraction.
MainDirs(t) ==
    { NoDir,
      LeftBy(t, GenuineBytes(t), TRUE),
      LeftBy(t, GenuineBytes(t) \o <<0>>, TRUE),
      LeftBy(t, GenuineBytes(t), FALSE) }

\* The processes the program is started in: Linux, plain Windows, Windows
\* in a Visual Studio shell.
MainWorlds ==
    { NoWorld,
      [NoWorld EXCEPT !.platform = "win32"],
      [NoWorld EXCEPT !.platform = "win32", !.VSINSTALLDIR = TRUE] }

Init ==
    /\ pc = "main"
    /\ rest = <<>>
    /\ argv \in CommandLines
    /\ op = NoOp
    /\ target = None
    /\ loc = NoLocals
    /\ \E dp \in (IF argv.build_dir = None /\ ParseArgs(argv).build_pkgconf
                   THEN MainDirs("pkgconf") ELSE {NoDir}),
          dc \in (IF argv.build_dir = None /\ ParseArgs(argv).build_cairo
                   THEN MainDirs("cairo") ELSE {NoDir}),
          dg \in (IF argv.build_dir = None THEN {NoDir}
                   ELSE MainDirs("pkgconf") \cup MainDirs("cairo")) :
          fs = [b \in BuildDirIds |->
                  CASE b = "pkgconf" -> dp [] b = "cairo" -> dc [] OTHER -> dg]
    /\ libdir = <<>>
    /\ ENVIRON = AmbientENVIRON
    /\ calls = <<>>
    /\ \E w \in MainWorlds : vs = [NoVs EXCEPT !.w = w]
    /\ \E usr \in {{}, Tools}, patch \in {"PATH", "none"} :
          mes = [NoMes EXCEPT !.usr = usr, !.patch = patch]
    /\ dl = NoDl
    /\ sha = NoSha

Next ==
    \/ Main
    \/ BuildPkgconf
    \/ BuildCairo
    \/ SetupVs
    \/ DlCall
    \/ DlFetch
    \/ DlCheck
    \/ DlExtract
    \/ DlMove
    \/ CopySubprojects
    \/ ApplyPatch
    \/ GetMeson
    \/ MesonSetup
    \/ MesonCompile
    \/ MesonInstall
    \/ PostProcess
    \/ CopyLib

Spec == Init /\ [][Next]_vars

-----------------------------------------------------------------------------
(* The claims. *)

NoExtraction(t) == ~Happened(t, "extractall") /\ ~Happened(t, "move")

\* C1: with hash checking on, an archive at the destination (downloaded or
\* cached) whose digest differs from the expected one ends the run at the
\* check: in a run in which check_sha256 raised there is no tar extraction
\* and no rename, and no mismatching archive gets past the check.
C1_MismatchStopsBeforeExtraction ==
    /\ Happened(target, "sha256_raised") => pc = "raised" /\ NoExtraction(target)
    /\ ( /\ dl.state # "idle"
         /\ pc # "dl_fetch"
         /\ dl.check_file_hash
         /\ dl.tararchive \in DOMAIN Entries
         /\ get_sha256_from_file(Entries[dl.tararchive].bytes) # dl.shasum )
       => pc \in {"dl_check", "raised"} /\ NoExtraction(target)

\* C1, its case: a cached archive with other bytes was refused, nothing was
\* downloaded and nothing extracted.
C1_Witness ==
    /\ pc = "raised"
    /\ Happened(target, "sha256_raised")
    /\ ~Happened(target, "download")
    /\ ExtractName(dl.tararchive) \notin DOMAIN Entries

\* C2 as stated: check_sha256 accepts exactly when the computed digest and
\* the expected one are equal as hex numbers, whatever the case of the digits.
C2_AcceptsIffEqualIgnoringCase ==
    sha.state \in {"matched", "raised"}
        => (sha.state = "matched" <=> Lower(sha.file_sha) = Lower(sha.hash))

\* C2, amended: check_sha256 accepts exactly when the lowercase hex digest of
\* the whole file and the expected string are the same string, digit for
\* digit and case for case; it raises in every other case.
C2_AcceptsIffEqualExactly ==
    sha.state \in {"matched", "raised"}
        => /\ sha.file_sha = HexDigest(Sha256Update(0, sha.file))
           /\ sha.state = "matched" <=> sha.file_sha = sha.hash
           /\ sha.state = "raised" <=> pc = "raised"

\* C2, its case: the expected digest is the file's own in capitals, and the
\* file is refused.
C2_Witness ==
    /\ sha.state = "raised"
    /\ sha.hash # sha.file_sha
    /\ Lower(sha.hash) = sha.file_sha

BuildWork == {"patch", "setup", "compile", "install"}

\* C3 as stated: a build function that finds the archive, the extracted tree
\* and the build subdirectory of a run before downloads nothing, runs no
\* patch, setup, compile or install, and does not fail.
C3_FinishedRunIsLeftAlone ==
    loc.cached =>
        /\ pc # "raised"
        /\ ~Happened(target, "download")
        /\ \A e \in BuildWork : ~Happened(target, e)

\* C3, amended: build_pkgconf does nothing at all and returns when its build
\* directory exists; build_cairo in a directory that holds the archive, the
\* tree and the build subdirectory downloads and extracts nothing, but it
\* patches and runs setup, compile and install again before it ends well.
C3_PkgconfSkipsCairoRebuilds ==
    /\ (target = "pkgconf" /\ loc.found_dir)
          => pc # "raised" /\ \A i \in 1..Len(calls) : calls[i].target # "pkgconf"
    /\ (target = "cairo" /\ loc.cached)
          => /\ ~Happened("cairo", "download")
             /\ NoExtraction("cairo")
             /\ pc = "done" => \A e \in BuildWork : Happened("cairo", e)

\* C3, its case: build_cairo ended well in a directory that held a finished
\* run, and it ran install again.
C3_Witness ==
    /\ target = "cairo"
    /\ loc.cached
    /\ pc = "done"
    /\ Happened("cairo", "install")

Phases == {"setup", "compile", "install"}

\* C4: for each target setup, compile and install run at most once each, in
\* that order, each only after the one before exited zero; a non-zero exit of
\* any of them is the last thing the run does: no later phase, no copy of
\* lib*.a, no build of cairo after a failed build of pkgconf.
C4_PhasesInOrderFailureAborts ==
    /\ \A i \in 1..Len(calls) :
          calls[i].ev \in Phases =>
            /\ calls[i].rc # 0 => i = Len(calls) /\ pc = "raised"
            /\ \A j \in 1..Len(calls) :
                  (calls[j].ev = calls[i].ev /\ calls[j].target = calls[i].target) => j = i
            /\ calls[i].ev = "compile" =>
                  \E j \in 1..(i - 1) : calls[j] = [calls[i] EXCEPT !.ev = "setup", !.rc = 0]
            /\ calls[i].ev = "install" =>
                  \E j \in 1..(i - 1) : calls[j] = [calls[i] EXCEPT !.ev = "compile", !.rc = 0]
    /\ pc \in {"postprocess", "copy_lib"} =>
          \E j \in 1..Len(calls) : calls[j] = [ev |-> "install", target |-> "cairo", rc |-> 0]

\* C4, its case: compile of pkgconf exited non-zero in a run that was to build
\* cairo too; the run is over and nothing of cairo has happened.
C4_Witness ==
    /\ pc = "raised"
    /\ op.build_cairo
    /\ calls # <<>>
    /\ calls[Len(calls)] = [ev |-> "compile", target |-> "pkgconf", rc |-> 1]

\* The tree of the archive is a directory at destdir/extract_dir.
TreeAtExtractDir ==
    /\ dl.extract_dir \in DOMAIN Entries
    /\ Entries[dl.extract_dir].kind = "dir"
    /\ Entries[dl.extract_dir].origin = target

\* C5 as stated: whenever download_and_extract returns, the extracted tree is
\* a directory at destdir/<archive name less its last two dot-separated
\* parts>; and an archive that was unpacked has its folder at that path,
\* whatever the folder is called and whatever else destdir holds.
C5_ExtractedTreeAtDerivedPath ==
    /\ dl.state = "returned" => TreeAtExtractDir
    /\ ( /\ dl.state # "idle"
         /\ pc \in {"done", "raised"}
         /\ \E i \in 1..Len(calls) : calls[i] = Event("extractall", 0) )
       => TreeAtExtractDir

\* C6 as stated: whenever get_meson_executable returns, meson and ninja are
\* both found on ENVIRON["PATH"] and the returned path is not None.
C6_ReturnsResolvableTools ==
    mes.state = "returned" =>
        /\ mes.ret # None
        /\ mes.ninja # None
        /\ Which("meson", ENVIRON.PATH, fs, mes.usr, vs.w.platform) = mes.ret
        /\ Which("ninja", ENVIRON.PATH, fs, mes.usr, vs.w.platform) # None

\* C7 as stated: the venv is provisioned not at all when both tools are on
\* PATH, once when one is missing, and a second time when the tools are
\* still not found after the first.
C7_ProvisionedOnceThenRetried ==
    mes.state \in {"returned", "raised"} =>
        mes.provisions = IF ~mes.missing THEN 0
                         ELSE IF mes.still_unusable THEN 2 ELSE 1

\* C7, amended: the venv is provisioned not at all when both tools are on
\* PATH, and not at all when one is missing but the venv directory is there
\* and both are found with its directories first on PATH; once when one is
\* missing and the venv is not there or the tools are not found in it; never
\* twice in one call, whatever the first provisioning leaves.
C7_ProvisionedAtMostOnce ==
    mes.state \in {"returned", "raised"} =>
        /\ mes.provisions =
              IF mes.missing /\ (~mes.venv_existed \/ ~mes.usable) THEN 1 ELSE 0
        /\ Len(EventsOf(target, "venv")) = mes.provisions
        /\ Len(EventsOf(target, "pip")) <= mes.provisions

\* C7, its case: meson or ninja is missing on PATH, the venv is there and
\* usable, and nothing was provisioned.
C7_Witness ==
    /\ mes.state = "returned"
    /\ mes.missing
    /\ mes.venv_existed
    /\ mes.usable
    /\ mes.provisions = 0

\* setup_vs did nothing: it returned False, ran no subprocess and left
\* ENVIRON as it was.
SetupVsNoOp ==
    /\ vs.state = "returned"
    /\ vs.ret = FALSE
    /\ vs.ran = {}
    /\ calls = <<>>
    /\ ENVIRON = vs.before

CopyName(n) == SubSeq(n, 2, Len(n) - 2) \o <<".", "lib">>

\* C9 as stated: after the install of a static cairo with setup_vs true,
\* every lib*.a of <prefix>/lib has a sibling of the same content named
\* without lib and with .lib for .a, and is still there itself; with another
\* link mode or setup_vs false nothing is copied.
C9_EveryStaticLibHasItsCopy ==
    pc \in {"done", "raised"} =>
        IF loc.build_type = "static" /\ loc.msvc = TRUE
        THEN \A n \in DOMAIN libdir :
               GlobLib(n) => /\ libdir[n] = n
                             /\ CopyName(n) \in DOMAIN libdir
                             /\ libdir[CopyName(n)] = libdir[n]
        ELSE \A n \in DOMAIN libdir : libdir[n] = n

\* The values of --check-file-hash that mean false to the user.
MeansFalse(a) == a \in {"", "False", "false", "0", "no"}

\* C10 as stated: with --check-file-hash given a value that means false no
\* digest is compared in the run; with the option left out or given a value
\* that means true every archive that gets to the check is compared.
C10_FalseValueSkipsTheCheck ==
    pc # "main" =>
        /\ MeansFalse(argv.check_file_hash) =>
              \A i \in 1..Len(calls) : calls[i].ev \notin {"sha256_matched", "sha256_raised"}
        /\ ~MeansFalse(argv.check_file_hash) => op.check_file_hash

=============================================================================
